---- MODULE Spec2Model ----
\* Model of Hackathon/sros-event-handling/examples/opergroup_bgp_sros.py:
\* an event-handling script that counts the established BGP sessions of the
\* group "rr" and disables or enables the "tester" interfaces of the Base
\* router.  One run of main() is one invocation; the device (interfaces,
\* BGP neighbours) changes concurrently with the script.
EXTENDS Integers, Sequences, FiniteSets, TLC

\* ---------------------------------------------------------------- constants
WELL_KNOWN_EBGP_GROUP_NAME == "rr"
MIN_NUM_ACTIVE_BGP_SESSIONS == 1

\* the substring tested by find_interfaces ("tester"), as a character sequence
DownstreamTag == <<"t", "e", "s", "t", "e", "r">>

EventDegraded == 2039
EventEstablished == 2038

\* ------------------------------------------------------------------- bounds
\* number of interfaces of the Base router and of BGP neighbours in the model
NumInterfaces == 3
NumPeers == 2

\* ------------------------------------------------------------ input domains
\* interface names, as character sequences: the tag at the start, the tag in
\* the middle, no tag at all, a prefix of the tag only
AllInterfaceNames ==
    << <<"t", "e", "s", "t", "e", "r", "1">>,
       <<"S", "p", "i", "n", "e", "6">>,
       <<"t", "o", "-", "t", "e", "s", "t", "e", "r">>,
       <<"t", "e", "s", "t", "e">>,
       <<"x", "t", "e", "s", "t", "e", "r", "s">> >>

Interfaces == {AllInterfaceNames[k] : k \in 1..NumInterfaces}

AllPeers == <<"A", "B", "C", "D">>

Peers == {AllPeers[k] : k \in 1..NumPeers}

Groups == {WELL_KNOWN_EBGP_GROUP_NAME, "transit"}

\* event subjects: a peer name, a text with a digit inside, a digit-leading
\* text, the empty text
Subjects == { <<"A">>, <<"P", "1">>, <<"1", "0">>, <<>> }

EventIds == {EventDegraded, EventEstablished, 2040}

NoEvent == [present |-> FALSE, eventid |-> 0, subject |-> <<>>]

Events ==
    {NoEvent} \cup
    {[present |-> TRUE, eventid |-> e, subject |-> s] : e \in EventIds, s \in Subjects}

Digits == {"0", "1", "2", "3", "4", "5", "6", "7", "8", "9"}

\* ---------------------------------------------------------------- variables
VARIABLES
    oper,                  \* device: interface -> "up" | "down"
    admin,                 \* device: interface -> "enable" | "disable"
    cfgGroup,              \* device configuration: BGP neighbour -> group
    sessState,             \* device state: BGP neighbour -> session-state
    pc,                    \* position of the script
    handler,               \* handler main() dispatched to
    connection,            \* "none" | "open" | "closed"
    trigger_event,         \* result of get_event()
    bgp_session_state,     \* count_ebgp_sessions_established: first query
    active_ebgp_sessions,  \* handlers: the session count
    active_interfaces,     \* handlers: selection before the change
    inactive_interfaces,   \* handlers: selection after the change
    setCalls,              \* calls of connection.candidate.set of this run
    trace,                 \* calls made to the collaborators in this run
    outcome,               \* how the run ended
    prev                   \* SpecRepeat only: what the run before this one did

device == <<oper, admin, cfgGroup, sessState>>
locals == <<bgp_session_state, active_ebgp_sessions, active_interfaces,
            inactive_interfaces>>
vars == <<oper, admin, cfgGroup, sessState, pc, handler, connection,
          trigger_event, bgp_session_state, active_ebgp_sessions,
          active_interfaces, inactive_interfaces, setCalls, trace, outcome,
          prev>>

\* the empty dict
EmptyDict == [i \in {} |-> "none"]

\* ------------------------------------------------------------ pure helpers
\* variant: the tag is looked for at the start of the name only
StartsWith(tag, name) ==
    /\ Len(name) >= Len(tag)
    /\ SubSeq(name, 1, Len(tag)) = tag

\* Python's  tag in name  for strings: tag occurs as a contiguous substring
Contains(tag, name) ==
    \E k \in 1..(Len(name) - Len(tag) + 1) :
        SubSeq(name, k, k + Len(tag) - 1) = tag

\* variant: only a leading zero counts as a digit
SubjectStartsWithZero(subject) == subject[1] = "0"

\* trigger_event.subject[0].isdigit(), for a non-empty subject
SubjectStartsWithDigit(subject) == subject[1] \in Digits

\* variant: of the interfaces that are down, only the administratively
\* disabled ones are returned
StateQueryDisabledInterfaces(oper_status_filter) ==
    [i \in {j \in Interfaces : /\ oper[j] = oper_status_filter
                               /\ (oper_status_filter = "down" => admin[j] = "disable")} |->
        [oper_state |-> oper[i]]]

\* connection.running.get of the interface list of the Base router with the
\* content filter {"oper-state": oper_status_filter}
StateQueryInterfaces(oper_status_filter) ==
    [i \in {j \in Interfaces : oper[j] = oper_status_filter} |->
        [oper_state |-> oper[i]]]

\* variant: the loop keeps every interface of the snapshot
find_interfaces_unfiltered(base_router_state) == base_router_state

\* the loop of find_interfaces over the snapshot base_router_state
find_interfaces_filter(base_router_state) ==
    [i \in {j \in DOMAIN base_router_state : Contains(DownstreamTag, j)} |->
        base_router_state[i]]

find_interfaces(oper_status_filter) ==
    find_interfaces_filter(StateQueryInterfaces(oper_status_filter))

\* variant: only the neighbour named by the subject of the event is looked at
StateQueryNeighborOfSubject ==
    {p \in Peers : sessState[p] = "Established" /\ trigger_event.subject = <<p>>}

\* connection.running.get of the BGP neighbours in state, with the content
\* filter session-state = Established: the keys of the result
StateQueryNeighbors == {p \in Peers : sessState[p] = "Established"}

\* connection.running.get of the configured BGP neighbours of the group
ConfQueryNeighbors == {p \in Peers : cfgGroup[p] = WELL_KNOWN_EBGP_GROUP_NAME}

\* variant: the loop counts every configured neighbour
CountConfigured(find_ebgp_configuration, session_state) ==
    Cardinality(find_ebgp_configuration)

\* the counting loop of count_ebgp_sessions_established
RECURSIVE CountLoop(_, _)
CountLoop(find_ebgp_configuration, session_state) ==
    IF find_ebgp_configuration = {} THEN 0
    ELSE LET ebgp_session == CHOOSE p \in find_ebgp_configuration : TRUE
             rest == CountLoop(find_ebgp_configuration \ {ebgp_session}, session_state)
         IN  IF ebgp_session \in session_state THEN rest + 1 ELSE rest

count_ebgp_sessions_established(find_ebgp_configuration, session_state) ==
    CountLoop(find_ebgp_configuration, session_state)

\* variants: a strict comparison; a threshold lower by one
threshold_exceeded(count) == count > MIN_NUM_ACTIVE_BGP_SESSIONS

threshold_minus_one_met(count) == count >= MIN_NUM_ACTIVE_BGP_SESSIONS - 1

\* the comparison of the handlers with the threshold
threshold_met(count) == count >= MIN_NUM_ACTIVE_BGP_SESSIONS

\* variant: the second branch is an else
dispatch_else(eventid) ==
    IF eventid = EventDegraded THEN "backwardsHandler" ELSE "establishedHandler"

\* the if/elif of main() on trigger_event.eventid
dispatch(eventid) ==
    IF eventid = EventDegraded THEN "backwardsHandler"
    ELSE IF eventid = EventEstablished THEN "establishedHandler"
    ELSE "none"

\* variant: the payload holds one of the interfaces only
cfg_payload_single(interfaces, change) ==
    [i \in {j \in DOMAIN interfaces : j = CHOOSE m \in DOMAIN interfaces : TRUE} |->
        [interface_name |-> i, admin_state |-> change]]

\* the payload built by modify_downstream_interfaces
cfg_payload(interfaces, change) ==
    [i \in DOMAIN interfaces |-> [interface_name |-> i, admin_state |-> change]]

\* no earlier run recorded
NoPrev ==
    [valid |-> FALSE, eventid |-> 0, subject |-> <<>>, count |-> 0,
     selection |-> EmptyDict, setCalls |-> <<>>, outcome |-> "none"]

\* --------------------------------------------------------------------- Init
\* the device before the first run: any interface and session states in which
\* a disabled interface is operationally down; the interfaces the operator has
\* disabled are among the downstream ones
Init ==
    /\ oper \in [Interfaces -> {"up", "down"}]
    /\ admin \in [Interfaces -> {"enable", "disable"}]
    /\ \A i \in Interfaces : admin[i] = "disable" => oper[i] = "down"
    /\ \A i \in Interfaces : admin[i] = "disable" => Contains(DownstreamTag, i)
    /\ cfgGroup \in [Peers -> Groups]
    /\ sessState \in [Peers -> {"Established", "Active"}]
    /\ pc = "idle"
    /\ handler = "none"
    /\ connection = "none"
    /\ trigger_event = NoEvent
    /\ bgp_session_state = {}
    /\ active_ebgp_sessions = 0
    /\ active_interfaces = EmptyDict
    /\ inactive_interfaces = EmptyDict
    /\ setCalls = <<>>
    /\ trace = <<>>
    /\ outcome = "none"
    /\ prev = NoPrev

\* ------------------------------------------------------------- environment
\* a BGP session of the device comes up or goes down
SessionChange ==
    /\ \E p \in Peers :
         sessState' = [sessState EXCEPT
                          ![p] = IF @ = "Established" THEN "Active" ELSE "Established"]
    /\ UNCHANGED <<oper, admin, cfgGroup, pc, handler, connection, trigger_event,
                   locals, setCalls, trace, outcome>>
    /\ UNCHANGED prev

\* the link of an administratively enabled interface comes up or goes down
LinkChange ==
    /\ \E i \in Interfaces :
         /\ admin[i] = "enable"
         /\ oper' = [oper EXCEPT ![i] = IF @ = "up" THEN "down" ELSE "up"]
    /\ UNCHANGED <<admin, cfgGroup, sessState, pc, handler, connection,
                   trigger_event, locals, setCalls, trace, outcome>>
    /\ UNCHANGED prev

\* an administratively disabled interface goes operationally down
AdminConverge ==
    /\ \E i \in Interfaces :
         /\ admin[i] = "disable"
         /\ oper[i] = "up"
         /\ oper' = [oper EXCEPT ![i] = "down"]
    /\ UNCHANGED <<admin, cfgGroup, sessState, pc, handler, connection,
                   trigger_event, locals, setCalls, trace, outcome>>
    /\ UNCHANGED prev

\* --------------------------------------------------------------------- main
\* variant: what the run before left in the variables is kept
connect_keeping_state(ev) ==
    /\ pc \in {"idle", "exit"}
    /\ trigger_event' = ev
    /\ connection' = "open"
    /\ handler' = "none"
    /\ trace' = <<"connect", "get_event">>
    /\ outcome' = "none"
    /\ pc' = "router"
    /\ UNCHANGED <<device, bgp_session_state, active_ebgp_sessions, active_interfaces,
                   inactive_interfaces, setCalls>>

\* main(): connect() and get_event() returning ev; a new run of the script
connect_and_get_event(ev) ==
    /\ pc \in {"idle", "exit"}
    /\ trigger_event' = ev
    /\ connection' = "open"
    /\ handler' = "none"
    /\ bgp_session_state' = {}
    /\ active_ebgp_sessions' = 0
    /\ active_interfaces' = EmptyDict
    /\ inactive_interfaces' = EmptyDict
    /\ setCalls' = <<>>
    /\ trace' = <<"connect", "get_event">>
    /\ outcome' = "none"
    /\ pc' = "router"
    /\ UNCHANGED device

main_connect ==
    /\ \E ev \in Events : connect_and_get_event(ev)
    /\ UNCHANGED prev

\* main(): the test of the event and the dispatch on eventid
main_router ==
    /\ pc = "router"
    /\ IF ~trigger_event.present
         THEN \* no event: disconnect and return
              /\ connection' = "closed"
              /\ trace' = Append(trace, "disconnect")
              /\ outcome' = "Discarded"
              /\ pc' = "exit"
              /\ handler' = handler
         ELSE IF trigger_event.subject = <<>>
         THEN \* subject[0] of the empty string raises IndexError
              /\ outcome' = "Raised"
              /\ pc' = "exit"
              /\ UNCHANGED <<connection, trace, handler>>
         ELSE IF SubjectStartsWithDigit(trigger_event.subject)
         THEN /\ connection' = "closed"
              /\ trace' = Append(trace, "disconnect")
              /\ outcome' = "Discarded"
              /\ pc' = "exit"
              /\ handler' = handler
         ELSE IF dispatch(trigger_event.eventid) # "none"
         THEN /\ handler' = dispatch(trigger_event.eventid)
              /\ pc' = "count_state"
              /\ UNCHANGED <<connection, trace, outcome>>
         ELSE \* neither 2039 nor 2038: straight to the final disconnect
              /\ outcome' = "Ignored"
              /\ pc' = "disconnect"
              /\ UNCHANGED <<connection, trace, handler>>
    /\ UNCHANGED <<device, trigger_event, locals, setCalls>>
    /\ UNCHANGED prev

\* main(): the final connection.disconnect()
main_disconnect ==
    /\ pc = "disconnect"
    /\ connection' = "closed"
    /\ trace' = Append(trace, "disconnect")
    /\ pc' = "exit"
    /\ UNCHANGED <<device, handler, trigger_event, locals, setCalls, outcome>>
    /\ UNCHANGED prev

\* ------------------------------------------- count_ebgp_sessions_established
\* an exception leaves main() without reaching connection.disconnect()
Raise ==
    /\ outcome' = "Raised"
    /\ pc' = "exit"

\* first query: the neighbours whose session-state is Established
count_query_state ==
    /\ pc = "count_state"
    /\ \E returns \in BOOLEAN :
         IF returns
           THEN /\ bgp_session_state' = StateQueryNeighbors
                /\ pc' = "count_conf"
                /\ outcome' = outcome
           ELSE /\ Raise
                /\ bgp_session_state' = bgp_session_state
    /\ trace' = Append(trace, "query_state_neighbor")
    /\ UNCHANGED <<device, handler, connection, trigger_event, active_ebgp_sessions,
                   active_interfaces, inactive_interfaces, setCalls>>
    /\ UNCHANGED prev

\* second query (the configured neighbours of the group), then the counting
\* loop; the function returns and its local bgp_session_state is gone
count_query_conf ==
    /\ pc = "count_conf"
    /\ \E returns \in BOOLEAN :
         IF returns
           THEN /\ active_ebgp_sessions' =
                      count_ebgp_sessions_established(ConfQueryNeighbors, bgp_session_state)
                /\ pc' = "evaluate"
                /\ outcome' = outcome
           ELSE /\ Raise
                /\ active_ebgp_sessions' = active_ebgp_sessions
    /\ bgp_session_state' = {}
    /\ trace' = Append(trace, "query_conf_neighbor")
    /\ UNCHANGED <<device, handler, connection, trigger_event,
                   active_interfaces, inactive_interfaces, setCalls>>
    /\ UNCHANGED prev

\* ----------------------------------------------------------------- handlers
\* the threshold test of backwardsHandler
backwardsHandler_evaluate ==
    /\ pc = "evaluate"
    /\ handler = "backwardsHandler"
    /\ IF threshold_met(active_ebgp_sessions)
         THEN /\ outcome' = "NoActionNeeded"
              /\ pc' = "disconnect"
         ELSE /\ outcome' = outcome
              /\ pc' = "select"
    /\ UNCHANGED <<device, handler, connection, trigger_event, locals, setCalls, trace>>
    /\ UNCHANGED prev

\* the threshold test of establishedHandler
establishedHandler_evaluate ==
    /\ pc = "evaluate"
    /\ handler = "establishedHandler"
    /\ IF threshold_met(active_ebgp_sessions)
         THEN /\ outcome' = outcome
              /\ pc' = "select"
         ELSE /\ outcome' = "NoActionNeeded"
              /\ pc' = "disconnect"
    /\ UNCHANGED <<device, handler, connection, trigger_event, locals, setCalls, trace>>
    /\ UNCHANGED prev

\* variant: the handler goes on to the change with an empty selection too
handler_select_always(oper_status_filter) ==
    /\ pc = "select"
    /\ \E returns \in BOOLEAN :
         IF returns
           THEN /\ active_interfaces' = find_interfaces(oper_status_filter)
                /\ trace' = trace \o <<"query_interface_" \o oper_status_filter,
                                       "print_table", "sleep">>
                /\ pc' = "apply"
                /\ outcome' = outcome
           ELSE /\ Raise
                /\ trace' = Append(trace, "query_interface_" \o oper_status_filter)
                /\ active_interfaces' = active_interfaces
    /\ UNCHANGED <<device, handler, connection, trigger_event, bgp_session_state,
                   active_ebgp_sessions, inactive_interfaces, setCalls>>
    /\ UNCHANGED prev

\* find_interfaces before the change, the [BEFORE] table and time.sleep(1)
handler_select(oper_status_filter) ==
    /\ pc = "select"
    /\ \E returns \in BOOLEAN :
         IF returns
           THEN /\ active_interfaces' = find_interfaces(oper_status_filter)
                /\ IF active_interfaces' # EmptyDict
                     THEN /\ trace' = trace \o <<"query_interface_" \o oper_status_filter,
                                                 "print_table", "sleep">>
                          /\ pc' = "apply"
                          /\ outcome' = outcome
                     ELSE /\ trace' = Append(trace, "query_interface_" \o oper_status_filter)
                          /\ pc' = "disconnect"
                          /\ outcome' = "NoActionNeeded"
           ELSE /\ Raise
                /\ trace' = Append(trace, "query_interface_" \o oper_status_filter)
                /\ active_interfaces' = active_interfaces
    /\ UNCHANGED <<device, handler, connection, trigger_event, bgp_session_state,
                   active_ebgp_sessions, inactive_interfaces, setCalls>>
    /\ UNCHANGED prev

\* variant: backwardsHandler selects the interfaces that are down
backwardsHandler_select_down ==
    /\ handler = "backwardsHandler"
    /\ handler_select("down")

backwardsHandler_select ==
    /\ handler = "backwardsHandler"
    /\ handler_select("up")

establishedHandler_select ==
    /\ handler = "establishedHandler"
    /\ handler_select("down")

\* results of connection.candidate.set: accepted, or one of the two
\* exceptions modify_downstream_interfaces catches
SetResults == {"ok", "SrosMgmtError", "TypeError"}

\* the device after connection.candidate.set(cfg_path, payload) with result
candidate_set(payload, result) ==
    IF result = "ok"
      THEN [i \in Interfaces |->
              IF i \in DOMAIN payload THEN payload[i].admin_state ELSE admin[i]]
      ELSE admin

\* modify_downstream_interfaces(connection, interfaces, change)
modify_downstream_interfaces(interfaces, change) ==
    LET payload == cfg_payload(interfaces, change)
    IN  IF payload # EmptyDict
          THEN \E result \in SetResults :
                 /\ admin' = candidate_set(payload, result)
                 /\ setCalls' = Append(setCalls, [payload |-> payload, result |-> result])
          ELSE UNCHANGED <<admin, setCalls>>

\* variant: the handler is over when connection.candidate.set raised
handler_apply_stop_on_error(change) ==
    /\ pc = "apply"
    /\ modify_downstream_interfaces(active_interfaces, change)
    /\ IF Len(setCalls') > Len(setCalls) /\ setCalls'[Len(setCalls')].result # "ok"
         THEN /\ trace' = Append(trace, "candidate_set")
              /\ pc' = "disconnect"
              /\ outcome' = "Done"
         ELSE /\ trace' = trace \o <<"candidate_set", "sleep">>
              /\ pc' = "verify"
              /\ outcome' = outcome
    /\ UNCHANGED <<oper, cfgGroup, sessState, handler, connection, trigger_event,
                   locals>>
    /\ UNCHANGED prev

\* variant: the interfaces are queried again right before the change
handler_apply_resample(change) ==
    /\ pc = "apply"
    /\ modify_downstream_interfaces(
           find_interfaces(IF change = "disable" THEN "up" ELSE "down"), change)
    /\ trace' = IF Len(setCalls') > Len(setCalls)
                  THEN trace \o <<"candidate_set", "sleep">>
                  ELSE Append(trace, "sleep")
    /\ pc' = "verify"
    /\ UNCHANGED <<oper, cfgGroup, sessState, handler, connection, trigger_event,
                   locals, outcome>>
    /\ UNCHANGED prev

\* the handler's call of modify_downstream_interfaces and its time.sleep(1)
handler_apply(change) ==
    /\ pc = "apply"
    /\ modify_downstream_interfaces(active_interfaces, change)
    /\ trace' = IF Len(setCalls') > Len(setCalls)
                  THEN trace \o <<"candidate_set", "sleep">>
                  ELSE Append(trace, "sleep")
    /\ pc' = "verify"
    /\ UNCHANGED <<oper, cfgGroup, sessState, handler, connection, trigger_event,
                   locals, outcome>>
    /\ UNCHANGED prev

\* variant: backwardsHandler asks for "enable"
backwardsHandler_apply_enable ==
    /\ handler = "backwardsHandler"
    /\ handler_apply("enable")

backwardsHandler_apply ==
    /\ handler = "backwardsHandler"
    /\ handler_apply("disable")

establishedHandler_apply ==
    /\ handler = "establishedHandler"
    /\ handler_apply("enable")

\* variant: the change is made again when the second selection lacks one of
\* the interfaces changed
handler_verify_retry(oper_status_filter) ==
    /\ pc = "verify"
    /\ \E returns \in BOOLEAN :
         IF returns
           THEN /\ inactive_interfaces' = find_interfaces(oper_status_filter)
                /\ trace' = IF inactive_interfaces' # EmptyDict
                              THEN trace \o <<"query_interface_" \o oper_status_filter,
                                              "print_table">>
                              ELSE Append(trace, "query_interface_" \o oper_status_filter)
                /\ IF DOMAIN active_interfaces \subseteq DOMAIN inactive_interfaces'
                     THEN pc' = "disconnect" /\ outcome' = "Done"
                     ELSE pc' = "apply" /\ outcome' = outcome
           ELSE /\ Raise
                /\ trace' = Append(trace, "query_interface_" \o oper_status_filter)
                /\ inactive_interfaces' = inactive_interfaces
    /\ UNCHANGED <<device, handler, connection, trigger_event, bgp_session_state,
                   active_ebgp_sessions, active_interfaces, setCalls>>
    /\ UNCHANGED prev

\* find_interfaces after the change, and the [AFTER] table
handler_verify(oper_status_filter) ==
    /\ pc = "verify"
    /\ \E returns \in BOOLEAN :
         IF returns
           THEN /\ inactive_interfaces' = find_interfaces(oper_status_filter)
                /\ trace' = IF inactive_interfaces' # EmptyDict
                              THEN trace \o <<"query_interface_" \o oper_status_filter,
                                              "print_table">>
                              ELSE Append(trace, "query_interface_" \o oper_status_filter)
                /\ pc' = "disconnect"
                /\ outcome' = "Done"
           ELSE /\ Raise
                /\ trace' = Append(trace, "query_interface_" \o oper_status_filter)
                /\ inactive_interfaces' = inactive_interfaces
    /\ UNCHANGED <<device, handler, connection, trigger_event, bgp_session_state,
                   active_ebgp_sessions, active_interfaces, setCalls>>
    /\ UNCHANGED prev

backwardsHandler_verify ==
    /\ handler = "backwardsHandler"
    /\ handler_verify("down")

establishedHandler_verify ==
    /\ handler = "establishedHandler"
    /\ handler_verify("up")

\* --------------------------------------------------------------------- Next
Next ==
    \/ SessionChange
    \/ LinkChange
    \/ AdminConverge
    \/ main_connect
    \/ main_router
    \/ main_disconnect
    \/ count_query_state
    \/ count_query_conf
    \/ backwardsHandler_evaluate
    \/ establishedHandler_evaluate
    \/ backwardsHandler_select
    \/ establishedHandler_select
    \/ backwardsHandler_apply
    \/ establishedHandler_apply
    \/ backwardsHandler_verify
    \/ establishedHandler_verify

Spec == Init /\ [][Next]_vars

\* ------------------------------------------------ two runs, one after another
\* the first run of main()
first_connect ==
    /\ pc = "idle"
    /\ main_connect

\* a run of a handler is over and main() runs again for an event with the same
\* id, the device being left alone in between; what the first run did
\* is kept in prev
repeat_connect ==
    /\ pc = "exit"
    /\ handler # "none"
    /\ ~prev.valid
    /\ prev' = [valid |-> TRUE,
                eventid |-> trigger_event.eventid,
                subject |-> trigger_event.subject,
                count |-> active_ebgp_sessions,
                selection |-> active_interfaces,
                setCalls |-> setCalls,
                outcome |-> outcome]
    /\ \E ev \in Events :
         /\ ev.present
         /\ ev.eventid = trigger_event.eventid
         /\ connect_and_get_event(ev)

\* the script alone: no change of the device other than by the script
NextRepeat ==
    \/ first_connect
    \/ repeat_connect
    \/ main_router
    \/ main_disconnect
    \/ count_query_state
    \/ count_query_conf
    \/ backwardsHandler_evaluate
    \/ establishedHandler_evaluate
    \/ backwardsHandler_select
    \/ establishedHandler_select
    \/ backwardsHandler_apply
    \/ establishedHandler_apply
    \/ backwardsHandler_verify
    \/ establishedHandler_verify

SpecRepeat == Init /\ [][NextRepeat]_vars

\* sessions and links change between two runs of the script
between_runs ==
    /\ pc = "exit"
    /\ handler # "none"
    /\ ~prev.valid
    /\ (SessionChange \/ LinkChange \/ AdminConverge)

\* a run of a handler is over and main() runs again for an event one of the
\* handlers takes; what the first run did is kept in prev
sequence_connect ==
    /\ pc = "exit"
    /\ handler # "none"
    /\ ~prev.valid
    /\ prev' = [valid |-> TRUE,
                eventid |-> trigger_event.eventid,
                subject |-> trigger_event.subject,
                count |-> active_ebgp_sessions,
                selection |-> active_interfaces,
                setCalls |-> setCalls,
                outcome |-> outcome]
    /\ \E ev \in Events :
         /\ ev.present
         /\ ev.eventid \in {EventDegraded, EventEstablished}
         /\ connect_and_get_event(ev)

\* two runs of the script in a row, the device changing in between only
NextSequence ==
    \/ first_connect
    \/ between_runs
    \/ sequence_connect
    \/ main_router
    \/ main_disconnect
    \/ count_query_state
    \/ count_query_conf
    \/ backwardsHandler_evaluate
    \/ establishedHandler_evaluate
    \/ backwardsHandler_select
    \/ establishedHandler_select
    \/ backwardsHandler_apply
    \/ establishedHandler_apply
    \/ backwardsHandler_verify
    \/ establishedHandler_verify

SpecSequence == Init /\ [][NextSequence]_vars

TypeOK ==
    /\ oper \in [Interfaces -> {"up", "down"}]
    /\ admin \in [Interfaces -> {"enable", "disable"}]
    /\ pc \in {"idle", "router", "count_state", "count_conf", "evaluate", "select",
               "apply", "verify", "disconnect", "exit"}
    /\ connection \in {"none", "open", "closed"}
    /\ active_ebgp_sessions \in 0..NumPeers

\* ------------------------------------------------------------- properties
\* the names of AllInterfaceNames that contain "tester", written out
TaggedNames ==
    { <<"t", "e", "s", "t", "e", "r", "1">>,
      <<"t", "o", "-", "t", "e", "s", "t", "e", "r">>,
      <<"x", "t", "e", "s", "t", "e", "r", "s">> }

\* count_ebgp_sessions_established has returned to the handler in this run
CountReturned ==
    /\ Len(trace) >= 4
    /\ trace[4] = "query_conf_neighbor"
    /\ ~(Len(trace) = 4 /\ outcome = "Raised")

\* the event passed the first test of main()
Accepted ==
    /\ trigger_event.present
    /\ trigger_event.subject # <<>>
    /\ trigger_event.subject[1] \notin Digits

\* main() has gone past the test and the dispatch
Routed == pc \notin {"idle", "router"}

\* C1: every interface named in a batch passed to connection.candidate.set
\* contains "tester", and an interface without "tester" in its name (enabled
\* before the first run) never has its admin-state written.
C1_OnlyTaggedInterfacesMutated ==
    /\ \A k \in 1..Len(setCalls) :
         \A i \in DOMAIN setCalls[k].payload : i \in TaggedNames
    /\ \A i \in Interfaces \ TaggedNames : admin[i] = "enable"

\* a batch of two tagged interfaces was accepted while an untagged interface
\* is up as well
C1_Witness ==
    /\ pc = "verify"
    /\ handler = "backwardsHandler"
    /\ Len(setCalls) = 1
    /\ setCalls[1].result = "ok"
    /\ Cardinality(DOMAIN setCalls[1].payload) = 2
    /\ \E i \in Interfaces \ TaggedNames : oper[i] = "up"

\* C2: a degradation event (2039) whose session count is at least
\* MIN_NUM_ACTIVE_BGP_SESSIONS ends at NoActionNeeded: no interface is
\* selected, connection.candidate.set is never called and no admin-state
\* changes.
C2_Case ==
    /\ handler = "backwardsHandler"
    /\ CountReturned
    /\ active_ebgp_sessions >= MIN_NUM_ACTIVE_BGP_SESSIONS

C2_DegradationAboveThresholdNoAction ==
    /\ [](C2_Case =>
            /\ setCalls = <<>>
            /\ active_interfaces = EmptyDict
            /\ pc \in {"evaluate", "disconnect", "exit"}
            /\ (pc # "evaluate" => outcome = "NoActionNeeded"))
    /\ [][C2_Case => admin' = admin]_vars

\* the scenario of the specification: two configured peers, one session, a
\* degradation event, the run over
C2_Witness ==
    /\ C2_Case
    /\ pc = "exit"
    /\ active_ebgp_sessions = 1
    /\ Cardinality(ConfQueryNeighbors) = 2
    /\ \E i \in TaggedNames \cap Interfaces : oper[i] = "up"

\* C3: an establishment event (2038) whose session count is below
\* MIN_NUM_ACTIVE_BGP_SESSIONS ends at NoActionNeeded: no interface is
\* selected, connection.candidate.set is never called and no admin-state
\* changes.
C3_Case ==
    /\ handler = "establishedHandler"
    /\ CountReturned
    /\ active_ebgp_sessions < MIN_NUM_ACTIVE_BGP_SESSIONS

C3_EstablishmentBelowThresholdNoAction ==
    /\ [](C3_Case =>
            /\ setCalls = <<>>
            /\ active_interfaces = EmptyDict
            /\ pc \in {"evaluate", "disconnect", "exit"}
            /\ (pc # "evaluate" => outcome = "NoActionNeeded"))
    /\ [][C3_Case => admin' = admin]_vars

\* an establishment event with no session of the group established, a tagged
\* interface down, the run over
C3_Witness ==
    /\ C3_Case
    /\ pc = "exit"
    /\ \E i \in TaggedNames \cap Interfaces : oper[i] = "down"

\* C4: the count returned for the configured neighbours C of the group and
\* the established neighbours S is the number of members of C that are in S;
\* it is 0 when C or S is empty and lies between 0 and the size of C.
C4_SessionCount ==
    [][(pc = "count_conf" /\ pc' = "evaluate") =>
          LET C == ConfQueryNeighbors
              S == bgp_session_state
              n == active_ebgp_sessions'
          IN  /\ n = Cardinality({p \in C : p \in S})
              /\ 0 <= n
              /\ n <= Cardinality(C)
              /\ (C = {} \/ S = {}) => n = 0]_vars

\* the count returned 1 for two configured neighbours of the group
C4_Witness ==
    /\ pc = "evaluate"
    /\ active_ebgp_sessions = 1
    /\ Cardinality(ConfQueryNeighbors) = 2

\* C5: an accepted event 2039 runs backwardsHandler only (selection of the
\* interfaces that are up, "disable"), an accepted event 2038 runs
\* establishedHandler only (selection of the interfaces that are down,
\* "enable"), and any other id runs no handler: no query, no
\* connection.candidate.set, then the disconnect.
C5_Dispatch ==
    (Routed /\ Accepted) =>
        /\ trigger_event.eventid = 2039 =>
             /\ handler = "backwardsHandler"
             /\ Len(trace) >= 5 => trace[5] \in {"query_interface_up", "disconnect"}
             /\ \A k \in 1..Len(setCalls) : \A i \in DOMAIN setCalls[k].payload :
                  setCalls[k].payload[i].admin_state = "disable"
        /\ trigger_event.eventid = 2038 =>
             /\ handler = "establishedHandler"
             /\ Len(trace) >= 5 => trace[5] \in {"query_interface_down", "disconnect"}
             /\ \A k \in 1..Len(setCalls) : \A i \in DOMAIN setCalls[k].payload :
                  setCalls[k].payload[i].admin_state = "enable"
        /\ trigger_event.eventid \notin {2038, 2039} =>
             /\ handler = "none"
             /\ setCalls = <<>>
             /\ pc \in {"disconnect", "exit"}
             /\ pc = "disconnect" => trace = <<"connect", "get_event">>
             /\ pc = "exit" =>
                  /\ trace = <<"connect", "get_event", "disconnect">>
                  /\ connection = "closed"

\* a run for an accepted event with another id is over
C5_Witness ==
    /\ Accepted
    /\ trigger_event.eventid = 2040
    /\ pc = "exit"
    /\ outcome = "Ignored"

\* C6: with no event, or with a subject that begins with a digit, the run
\* is an immediate no-op whatever the event id: no handler, no query, no
\* connection.candidate.set, and the session is disconnected.
C6_Case ==
    \/ ~trigger_event.present
    \/ /\ trigger_event.subject # <<>>
       /\ trigger_event.subject[1] \in Digits

C6_DiscardIsNoOp ==
    (Routed /\ C6_Case) =>
        /\ pc = "exit"
        /\ outcome = "Discarded"
        /\ handler = "none"
        /\ setCalls = <<>>
        /\ trace = <<"connect", "get_event", "disconnect">>
        /\ connection = "closed"

\* a degradation event with the subject "10" was discarded while no session is
\* established and a tagged interface is up
C6_Witness ==
    /\ pc = "exit"
    /\ trigger_event.present
    /\ trigger_event.eventid = 2039
    /\ trigger_event.subject = <<"1", "0">>
    /\ outcome = "Discarded"
    /\ \A p \in Peers : sessState[p] # "Established"
    /\ \E i \in TaggedNames \cap Interfaces : oper[i] = "up" /\ admin[i] = "enable"

\* the run ended because a connection.running.get raised
QueryRaised ==
    /\ outcome = "Raised"
    /\ trace[Len(trace)] \in {"query_state_neighbor", "query_conf_neighbor",
                              "query_interface_up", "query_interface_down"}

\* C7: the session is opened once at the start of a run and is disconnected
\* on each of these exits of the run: discard by the first test, unrecognized
\* id, NoActionNeeded, Done after an accepted or a rejected batch, and an exit
\* caused by a failing query; no such run ends with the session open.
C7_SessionReleasedOnEveryExit ==
    /\ pc # "idle" =>
         Cardinality({k \in 1..Len(trace) : trace[k] = "connect"}) = 1
    /\ (/\ pc = "exit"
        /\ \/ outcome \in {"Discarded", "Ignored", "NoActionNeeded", "Done"}
           \/ QueryRaised)
          => connection = "closed"

\* C8: when connection.candidate.set raises SrosMgmtError or TypeError the
\* error stays inside modify_downstream_interfaces: the handler goes on,
\* connection.candidate.set is not called a second time in the run, and the
\* run still disconnects the session.
C8_Case ==
    /\ Len(setCalls) >= 1
    /\ setCalls[1].result \in {"SrosMgmtError", "TypeError"}

C8_MutatorErrorSwallowed ==
    C8_Case =>
        /\ Len(setCalls) = 1
        /\ pc \in {"verify", "disconnect", "exit"}
        /\ pc = "exit" => connection = "closed"

\* C9: a degradation event with a count below the threshold (0, the threshold
\* being 1) and a non-empty selection of tagged interfaces that are up calls
\* connection.candidate.set exactly once, with one entry per selected
\* interface and "disable" in each; with a count of 1 it is not called.
C9_Case ==
    /\ handler = "backwardsHandler"
    /\ pc \in {"verify", "disconnect", "exit"}
    /\ active_ebgp_sessions < MIN_NUM_ACTIVE_BGP_SESSIONS
    /\ active_interfaces # EmptyDict

C9_RestrictBatch ==
    /\ C9_Case =>
         /\ Len(setCalls) = 1
         /\ DOMAIN setCalls[1].payload = DOMAIN active_interfaces
         /\ \A i \in DOMAIN active_interfaces :
              setCalls[1].payload[i] = [interface_name |-> i, admin_state |-> "disable"]
    /\ (handler = "backwardsHandler" /\ CountReturned /\ active_ebgp_sessions = 1) =>
         setCalls = <<>>

\* no session established, both tagged interfaces selected, the batch sent
C9_Witness ==
    /\ C9_Case
    /\ pc = "verify"
    /\ active_ebgp_sessions = 0
    /\ Cardinality(DOMAIN active_interfaces) = 2
    /\ Len(setCalls) = 1

\* C10: an establishment event with a count at or above the threshold and a
\* non-empty selection of tagged interfaces that are down calls
\* connection.candidate.set exactly once, with one entry per selected
\* interface and "enable" in each.
C10_Case ==
    /\ handler = "establishedHandler"
    /\ pc \in {"verify", "disconnect", "exit"}
    /\ active_ebgp_sessions >= MIN_NUM_ACTIVE_BGP_SESSIONS
    /\ active_interfaces # EmptyDict

C10_RestoreBatch ==
    C10_Case =>
        /\ Len(setCalls) = 1
        /\ DOMAIN setCalls[1].payload = DOMAIN active_interfaces
        /\ \A i \in DOMAIN active_interfaces :
             /\ active_interfaces[i].oper_state = "down"
             /\ setCalls[1].payload[i] = [interface_name |-> i, admin_state |-> "enable"]

\* a session established, both tagged interfaces selected, the batch sent
C10_Witness ==
    /\ C10_Case
    /\ pc = "verify"
    /\ Cardinality(DOMAIN active_interfaces) = 2
    /\ Len(setCalls) = 1

\* the payloads of a sequence of connection.candidate.set calls
Payloads(calls) == [k \in 1..Len(calls) |-> calls[k].payload]

\* the subject of the run before passed the first test of main()
PrevAccepted ==
    /\ prev.valid
    /\ prev.subject # <<>>
    /\ prev.subject[1] \notin Digits

\* C11: two runs for events with the same id and different subjects, both
\* subjects passing the first test of main(), the device left alone and the
\* queries returning in both: the two runs compute the same session count,
\* select the same interfaces, submit the same batch (or none in both) and end
\* the same way.
C11_Case ==
    /\ PrevAccepted
    /\ Accepted
    /\ prev.subject # trigger_event.subject
    /\ prev.eventid = trigger_event.eventid
    /\ pc = "exit"
    /\ outcome # "Raised"
    /\ prev.outcome # "Raised"

C11_SubjectDoesNotGate ==
    C11_Case =>
        /\ active_ebgp_sessions = prev.count
        /\ active_interfaces = prev.selection
        /\ Payloads(setCalls) = Payloads(prev.setCalls)
        /\ outcome = prev.outcome

\* a degradation event for "A" and one for "P1" with no session established
\* and a tagged interface up: both runs submit a batch
C11_Witness ==
    /\ C11_Case
    /\ trigger_event.eventid = 2039
    /\ {prev.subject, trigger_event.subject} = { <<"A">>, <<"P", "1">> }
    /\ prev.count = 0
    /\ Len(setCalls) = 1
    /\ Len(prev.setCalls) = 1

\* every tagged interface is disabled and operationally down
AllTaggedDisabledDown ==
    \A i \in Interfaces \cap TaggedNames : admin[i] = "disable" /\ oper[i] = "down"

\* C12: when every tagged interface is disabled and has gone operationally
\* down, the selection of backwardsHandler (filter "up"), its query
\* returning, is empty: a degradation event with a count below the threshold
\* ends at NoActionNeeded and connection.candidate.set is not called.
C12_RestrictIdempotent ==
    /\ [][(/\ handler = "backwardsHandler"
           /\ pc = "select"
           /\ AllTaggedDisabledDown
           /\ pc' # "select"
           /\ outcome' # "Raised")
          => /\ active_interfaces' = EmptyDict
             /\ pc' = "disconnect"
             /\ outcome' = "NoActionNeeded"
             /\ setCalls' = <<>>]_vars
    /\ []((handler = "backwardsHandler" /\ outcome = "NoActionNeeded") =>
            /\ setCalls = <<>>
            /\ pc \in {"disconnect", "exit"})

\* a degradation event with no session established found every tagged
\* interface disabled and down, while an untagged interface is up
C12_Witness ==
    /\ handler = "backwardsHandler"
    /\ pc = "disconnect"
    /\ outcome = "NoActionNeeded"
    /\ active_ebgp_sessions = 0
    /\ Len(trace) = 5
    /\ AllTaggedDisabledDown
    /\ \E i \in Interfaces \ TaggedNames : oper[i] = "up"

\* the filter of the query a handler makes after the change
OppositeQuery ==
    IF handler = "backwardsHandler" THEN "query_interface_down" ELSE "query_interface_up"

\* in this run the interfaces were queried again after connection.candidate.set
RequeriedAfterSet ==
    \E k \in 1..Len(trace) : \E j \in (k + 1)..Len(trace) :
        /\ trace[k] = "candidate_set"
        /\ trace[j] \in {"query_interface_up", "query_interface_down"}

\* connection.candidate.set raised in this run
C13_Case ==
    /\ Len(setCalls) >= 1
    /\ setCalls[1].result # "ok"

\* C13 as claimed: when connection.candidate.set rejects the batch the run
\* goes straight to Done: no pause followed by a new query of the interfaces,
\* and no second connection.candidate.set.
C13_FailedApplyGoesToDone ==
    C13_Case =>
        /\ Len(setCalls) = 1
        /\ ~RequeriedAfterSet

\* C13 as amended: when connection.candidate.set rejects the batch it is not
\* called again in the run, but the handler still pauses and queries the
\* interfaces with the opposite filter before the run is Done (which it is
\* when that query returns).
C13_FailedApplyStillVerifies ==
    C13_Case =>
        /\ Len(setCalls) = 1
        /\ pc \in {"verify", "disconnect", "exit"}
        /\ Len(trace) >= 9
        /\ trace[8] = "candidate_set"
        /\ trace[9] = "sleep"
        /\ pc \in {"disconnect", "exit"} =>
             /\ Len(trace) >= 10
             /\ trace[10] = OppositeQuery
             /\ outcome \in {"Done", "Raised"}
             /\ outcome = "Done" => pc = "disconnect" \/ connection = "closed"

\* a rejected batch, then the [AFTER] table of a non-empty second selection,
\* the run over
C13_Witness ==
    /\ C13_Case
    /\ pc = "exit"
    /\ outcome = "Done"
    /\ inactive_interfaces # EmptyDict

\* the first selection of the handler returned, and it is empty
C14_Case ==
    /\ handler # "none"
    /\ Len(trace) >= 5
    /\ trace[5] \in {"query_interface_up", "query_interface_down"}
    /\ ~(Len(trace) = 5 /\ outcome = "Raised")
    /\ active_interfaces = EmptyDict

\* C14: when find_interfaces returns an empty dict after the threshold test
\* has passed, the run ends at NoActionNeeded: no connection.candidate.set,
\* no pause and no second query of the interfaces.
C14_EmptySelectionNoAction ==
    C14_Case =>
        /\ outcome = "NoActionNeeded"
        /\ setCalls = <<>>
        /\ inactive_interfaces = EmptyDict
        /\ pc \in {"disconnect", "exit"}
        /\ \A k \in 1..Len(trace) : trace[k] # "sleep" /\ trace[k] # "candidate_set"
        /\ \A k \in 6..Len(trace) : trace[k] = "disconnect"

\* an establishment event with a session established found no tagged
\* interface down (an untagged one is down); the run is over
C14_Witness ==
    /\ C14_Case
    /\ handler = "establishedHandler"
    /\ pc = "exit"
    /\ active_ebgp_sessions >= 1
    /\ \A i \in Interfaces \cap TaggedNames : oper[i] = "up"
    /\ \E i \in Interfaces \ TaggedNames : oper[i] = "down"

\* the filter of the query a handler makes before the change
SelectQuery ==
    IF handler = "backwardsHandler" THEN "query_interface_up" ELSE "query_interface_down"

\* the steps of a run up to and including the pause after the change, in order:
\* the two queries of the count, the selection, the [BEFORE] table, a pause,
\* connection.candidate.set, the pause
StepsUpToPause ==
    /\ Len(trace) >= 9
    /\ SubSeq(trace, 3, 9) =
         <<"query_state_neighbor", "query_conf_neighbor", SelectQuery,
           "print_table", "sleep", "candidate_set", "sleep">>

\* connection.candidate.set was called in this run and the run is Done
C15_Case ==
    /\ Len(setCalls) >= 1
    /\ outcome = "Done"

\* C15 as claimed: a run that calls connection.candidate.set goes through
\* count, selection, connection.candidate.set, pause, second query with the
\* opposite filter and the report of its result, in this order, whatever the
\* result of the second query; the result never leads to another change.
C15_StepsInOrderWithReport ==
    C15_Case =>
        /\ Len(setCalls) = 1
        /\ StepsUpToPause
        /\ Len(trace) >= 11
        /\ trace[10] = OppositeQuery
        /\ trace[11] = "print_table"

\* C15 as amended: the same order, the [AFTER] table being printed only when
\* the second query returns a non-empty dict; once that query has returned
\* the run is Done whatever it returned, and connection.candidate.set is
\* called once only.
C15_StepsInOrder ==
    /\ Len(setCalls) <= 1
    /\ Len(setCalls) = 1 => StepsUpToPause
    /\ C15_Case =>
         /\ Len(trace) >= 10
         /\ trace[10] = OppositeQuery
         /\ IF inactive_interfaces # EmptyDict
              THEN /\ Len(trace) >= 11
                   /\ trace[11] = "print_table"
                   /\ \A k \in 12..Len(trace) : trace[k] = "disconnect"
              ELSE \A k \in 11..Len(trace) : trace[k] = "disconnect"
    /\ (Len(setCalls) = 1 /\ pc \in {"disconnect", "exit"} /\ outcome # "Raised") =>
         outcome = "Done"

\* a batch of two interfaces was accepted, the second query returned nothing
\* and the run is over, Done, without an [AFTER] table
C15_Witness ==
    /\ C15_Case
    /\ pc = "exit"
    /\ setCalls[1].result = "ok"
    /\ Cardinality(DOMAIN active_interfaces) = 2
    /\ inactive_interfaces = EmptyDict
    /\ Len(trace) = 11

\* C16: for every snapshot connection.running.get returns, find_interfaces
\* returns exactly the entries whose name contains "tester", with their
\* values unchanged: no entry without the tag, every entry with it, and the
\* empty dict when no name of the snapshot has the tag.
C16_SelectorExact ==
    [][(pc \in {"select", "verify"} /\ pc' # pc /\ outcome' # "Raised") =>
          LET oper_status_filter ==
                  IF (pc = "select") = (handler = "backwardsHandler")
                    THEN "up" ELSE "down"
              snapshot == StateQueryInterfaces(oper_status_filter)
              returned == IF pc = "select" THEN active_interfaces'
                                           ELSE inactive_interfaces'
          IN  /\ DOMAIN returned = DOMAIN snapshot \cap TaggedNames
              /\ \A i \in DOMAIN returned : returned[i] = snapshot[i]]_vars

\* the selection of backwardsHandler kept "tester1" and "to-tester" out of a
\* snapshot that held an untagged interface too
C16_Witness ==
    /\ pc = "apply"
    /\ handler = "backwardsHandler"
    /\ Cardinality(DOMAIN active_interfaces) = 2
    /\ <<"t", "o", "-", "t", "e", "s", "t", "e", "r">> \in DOMAIN active_interfaces
    /\ \E i \in Interfaces \ TaggedNames : oper[i] = "up"

\* the run before had its batch rejected, and this run, for an accepted event
\* with the same id, is past its handler without a query having raised
C17_Case ==
    /\ prev.valid
    /\ Len(prev.setCalls) = 1
    /\ prev.setCalls[1].result # "ok"
    /\ Accepted
    /\ trigger_event.eventid = prev.eventid
    /\ pc \in {"disconnect", "exit"}
    /\ outcome # "Raised"

\* C17: a run starts with nothing left of the run before (the threshold is a
\* constant of the module), so after a run whose batch was rejected, the next
\* run for an event of the same direction, the device unchanged, computes the
\* same count and the same selection and submits the same batch again.
C17_FailedTransitionReevaluated ==
    /\ pc = "router" =>
         /\ setCalls = <<>>
         /\ active_ebgp_sessions = 0
         /\ bgp_session_state = {}
         /\ active_interfaces = EmptyDict
         /\ inactive_interfaces = EmptyDict
    /\ C17_Case =>
         /\ active_ebgp_sessions = prev.count
         /\ active_interfaces = prev.selection
         /\ Len(setCalls) = 1
         /\ setCalls[1].payload = prev.setCalls[1].payload
         /\ outcome = "Done"

\* a Restrict of two interfaces was rejected with SrosMgmtError; the next
\* degradation event submitted the batch again and it was accepted
C17_Witness ==
    /\ C17_Case
    /\ pc = "exit"
    /\ trigger_event.eventid = 2039
    /\ prev.setCalls[1].result = "SrosMgmtError"
    /\ Cardinality(DOMAIN prev.selection) = 2
    /\ Len(setCalls) = 1
    /\ setCalls[1].result = "ok"

\* C18: every run, for every event and every device state, the queries and
\* connection.candidate.set returning, runs to completion: a run of a handler
\* ends at NoActionNeeded or Done, a run without a handler (event discarded or
\* id not recognized) ends as a no-op, and no run ends in any other way.
C18_RunsToTerminalState ==
    (pc = "exit" /\ ~QueryRaised) =>
        \/ handler # "none" /\ outcome \in {"NoActionNeeded", "Done"}
        \/ handler = "none" /\ outcome \in {"Discarded", "Ignored"}

\* the selection a query of the interfaces would return in the current state
FreshSelection == find_interfaces(IF handler = "backwardsHandler" THEN "up" ELSE "down")

\* the count the two neighbor queries would give in the current state
FreshCount == count_ebgp_sessions_established(ConfQueryNeighbors, StateQueryNeighbors)

\* C19: in a run that called connection.candidate.set, the neighbors were
\* queried once (one state query, one configuration query) and the interfaces
\* once before the call, and the batch names exactly the interfaces of that
\* one selection, kept in active_interfaces, whatever the device is like by
\* the time of the call.
C19_DecisionFromSnapshots ==
    Len(setCalls) >= 1 =>
        /\ Len(setCalls) = 1
        /\ Len(trace) >= 8
        /\ SubSeq(trace, 1, 8) =
             <<"connect", "get_event", "query_state_neighbor", "query_conf_neighbor",
               SelectQuery, "print_table", "sleep", "candidate_set">>
        /\ DOMAIN setCalls[1].payload = DOMAIN active_interfaces
        /\ \A i \in DOMAIN active_interfaces :
             active_interfaces[i].oper_state =
                 (IF handler = "backwardsHandler" THEN "up" ELSE "down")

\* backwardsHandler has just submitted its batch although, by now, the count
\* is back at the threshold and an interface of the batch is no longer up
C19_Witness ==
    /\ handler = "backwardsHandler"
    /\ pc = "verify"
    /\ Len(setCalls) = 1
    /\ setCalls[1].result # "ok"
    /\ active_ebgp_sessions < MIN_NUM_ACTIVE_BGP_SESSIONS
    /\ threshold_met(FreshCount)
    /\ DOMAIN FreshSelection # DOMAIN setCalls[1].payload

\* the run before was a backwardsHandler run whose batch was accepted
PrevRestricted ==
    /\ prev.valid
    /\ prev.eventid = EventDegraded
    /\ Len(prev.setCalls) = 1
    /\ prev.setCalls[1].result = "ok"

\* C20: whatever the run before did and however the device changed since, an
\* establishedHandler run at or above the threshold selects, and passes to
\* connection.candidate.set with "enable", every interface with "tester" in
\* its name that is operationally down when it is queried, and no other; the
\* batch does not depend on the batch of a backwardsHandler run before it.
C20_RestoreIgnoresHistory ==
    (prev.valid /\ handler = "establishedHandler" /\ pc \in {"apply", "verify", "disconnect", "exit"}
        /\ outcome \notin {"Raised", "NoActionNeeded"}) =>
        /\ DOMAIN active_interfaces = {i \in Interfaces \cap TaggedNames : oper[i] = "down"}
        /\ pc # "apply" =>
             /\ Len(setCalls) = 1
             /\ setCalls[1].payload =
                  [i \in {j \in Interfaces \cap TaggedNames : oper[j] = "down"} |->
                      [interface_name |-> i, admin_state |-> "enable"]]

\* after a backwardsHandler run that disabled an interface, an
\* establishedHandler run enables an interface that run never disabled and
\* that was administratively enabled all along
C20_Witness ==
    /\ PrevRestricted
    /\ handler = "establishedHandler"
    /\ pc = "exit"
    /\ outcome = "Done"
    /\ Len(setCalls) = 1
    /\ \E i \in DOMAIN setCalls[1].payload :
         /\ i \notin DOMAIN prev.setCalls[1].payload
         /\ admin[i] = "enable"
         /\ setCalls[1].result # "ok"

====
